---- MODULE Spec2Model ----
(***************************************************************************)
(* Review engine of the Hindi shadow trainer: the SM-2 scheduler           *)
(* (modules/srs.py), the SQLite vocabulary store (modules/database.py)     *)
(* and the review flows that drive them (modules/review.py, gui.py,        *)
(* main.py).                                                               *)
(*                                                                         *)
(* A date is a day ordinal (a natural number); date.today() is the         *)
(* variable today.  SQLite stores a date as the ISO-8601 text Python's     *)
(* sqlite3 adapter produces, modelled as the triple <<year, month, day>>,  *)
(* and compares and sorts it as text, i.e. lexicographically.              *)
(* A nullable value is <<>> (None / NULL) or <<v>>.                        *)
(***************************************************************************)
EXTENDS Integers, Sequences, FiniteSets, TLC

----------------------------------------------------------------------------
(* Bounds of the model *)

\* rows the vocab table ever receives (AUTOINCREMENT ids 1..MaxId)
MaxId == 2
\* days the clock advances after the start of a run
MaxDays == 1
\* the longest text given to _normalize
MaxNormLen == 5
\* the longest text of a pair given to calculate_score
MaxScoreLen == 3
\* the most words of a text given to highlight_diff
MaxWords == 3

----------------------------------------------------------------------------
(* Nullable values *)

None == <<>>
Some(v) == <<v>>

----------------------------------------------------------------------------
(* Configuration: config.py *)

SRS_INTERVALS == <<1, 3, 7, 14, 30, 90>>
\* SRS_EASINESS_FACTOR = 1.3, kept as the exact fraction 13/10
SRS_EASINESS_NUM == 13
SRS_EASINESS_DEN == 10

----------------------------------------------------------------------------
(* Calendar: Python date arithmetic and the ISO text of a date *)

\* the date of day ordinal 0: 2027-12-30, so that the first days of a run
\* cross a month and a year boundary and the horizon holds a 29 February
Epoch == <<2027, 12, 30>>

IsLeap(y) == (y % 4 = 0 /\ y % 100 # 0) \/ y % 400 = 0

DaysInMonth(y, m) ==
    IF m = 2 THEN (IF IsLeap(y) THEN 29 ELSE 28)
    ELSE IF m \in {4, 6, 9, 11} THEN 30 ELSE 31

\* date + timedelta(days=k), month by month
RECURSIVE AddDays(_, _)
AddDays(t, k) ==
    IF t[3] + k <= DaysInMonth(t[1], t[2]) THEN <<t[1], t[2], t[3] + k>>
    ELSE AddDays(IF t[2] < 12 THEN <<t[1], t[2] + 1, 1>> ELSE <<t[1] + 1, 1, 1>>,
                 k - (DaysInMonth(t[1], t[2]) - t[3] + 1))

DateOfOrdinal(n) == AddDays(Epoch, n)

\* the days on which a stored trajectory of reviews starts (see Init):
\* an item added on day 0 and rated 4 every time it is due is due on these
StartDays == {0, 145}

\* the last day ordinal the model ever converts to text
Horizon == 145 + MaxDays + 100

\* sqlite3's date adapter: date -> 'YYYY-MM-DD', as <<year, month, day>>
adapt_date == [n \in 0..Horizon |-> DateOfOrdinal(n)]

\* SQLite's comparison of two ISO date texts: lexicographic
TextLT(a, b) ==
    \/ a[1] < b[1]
    \/ a[1] = b[1] /\ a[2] < b[2]
    \/ a[1] = b[1] /\ a[2] = b[2] /\ a[3] < b[3]

TextLE(a, b) == a = b \/ TextLT(a, b)

----------------------------------------------------------------------------
(* The scheduler: SM2Algorithm.calculate_next_review *)

Min(a, b) == IF a < b THEN a ELSE b

\* Python's truthiness of the optional argument: None and 0 are false
Truthy(opt) == opt # None /\ opt[1] # 0

\* int(last_interval * 1.3): truncation of the product
ef_interval(last_interval) ==
    (last_interval * SRS_EASINESS_NUM) \div SRS_EASINESS_DEN

\* the forgot branch taken for ratings below 2 only
calculate_next_review_forgot2(now, current_stage, quality, last_interval) ==
    IF quality < 2
    THEN [next_date |-> now + 1, new_stage |-> 0, new_interval |-> 1]
    ELSE LET new_stage == Min(current_stage + 1, 5)
             interval == SRS_INTERVALS[new_stage + 1]
         IN  [next_date |-> now + interval,
              new_stage |-> new_stage,
              new_interval |-> interval]

\* the interval looked up for the current stage, not the new one
calculate_next_review_stale(now, current_stage, quality, last_interval) ==
    IF quality < 3
    THEN [next_date |-> now + 1, new_stage |-> 0, new_interval |-> 1]
    ELSE LET new_stage == Min(current_stage + 1, 5)
             interval == SRS_INTERVALS[current_stage + 1]
         IN  [next_date |-> now + interval,
              new_stage |-> new_stage,
              new_interval |-> interval]

\* the stage advanced without the cap at 5
calculate_next_review_nocap(now, current_stage, quality, last_interval) ==
    IF quality < 3
    THEN [next_date |-> now + 1, new_stage |-> 0, new_interval |-> 1]
    ELSE LET new_stage == current_stage + 1
             interval == IF new_stage < Len(SRS_INTERVALS)
                         THEN SRS_INTERVALS[new_stage + 1]
                         ELSE SRS_INTERVALS[Len(SRS_INTERVALS)]
         IN  [next_date |-> now + interval,
              new_stage |-> new_stage,
              new_interval |-> interval]

\* a forgotten item scheduled for today instead of tomorrow
calculate_next_review_sameday(now, current_stage, quality, last_interval) ==
    IF quality < 3
    THEN [next_date |-> now, new_stage |-> 0, new_interval |-> 1]
    ELSE LET new_stage == Min(current_stage + 1, 5)
             interval == SRS_INTERVALS[new_stage + 1]
         IN  [next_date |-> now + interval,
              new_stage |-> new_stage,
              new_interval |-> interval]

calculate_next_review(now, current_stage, quality, last_interval) ==
    IF quality < 3
    THEN [next_date |-> now + 1, new_stage |-> 0, new_interval |-> 1]
    ELSE LET new_stage == Min(current_stage + 1, 5)
             interval ==
                 IF new_stage < Len(SRS_INTERVALS)
                 THEN SRS_INTERVALS[new_stage + 1]
                 ELSE IF Truthy(last_interval)
                      THEN ef_interval(last_interval[1])
                      ELSE SRS_INTERVALS[Len(SRS_INTERVALS)]
         IN  [next_date |-> now + interval,
              new_stage |-> new_stage,
              new_interval |-> interval]

----------------------------------------------------------------------------
(* Texts are sequences of characters; "" is <<>> *)

IsSpace(c) == c \in {" ", "\t"}

\* str.strip()
RECURSIVE lstrip(_)
lstrip(t) == IF t # <<>> /\ IsSpace(Head(t)) THEN lstrip(Tail(t)) ELSE t

RECURSIVE rstrip(_)
rstrip(t) ==
    IF t # <<>> /\ IsSpace(t[Len(t)]) THEN rstrip(SubSeq(t, 1, Len(t) - 1))
    ELSE t

strip(t) == rstrip(lstrip(t))

\* what the user may type at a prompt or into a text field
Typed == {<<>>, <<" ">>, <<"x">>, <<" ", "x">>}

\* every text of at most n characters of the set chars
TextsOver(chars, n) == UNION {[1..k -> chars] : k \in 0..n}

----------------------------------------------------------------------------
(* The scorer's normalisation: PronunciationScorer._normalize *)

\* the characters of string.punctuation that occur in the model's texts
Punctuation == {",", "?"}

\* str.lower() on one character; "A" is the alphabet's one cased letter
lower_char(c) == IF c = "A" THEN "a" ELSE c

\* str.lower()
lower(t) == [i \in 1..Len(t) |-> lower_char(t[i])]

\* ''.join(ch for ch in text if ch not in string.punctuation)
remove_punctuation(t) == SelectSeq(t, LAMBDA ch : ch \notin Punctuation)

\* the length of the longest prefix of t without whitespace
RECURSIVE WordLen(_)
WordLen(t) == IF t = <<>> \/ IsSpace(Head(t)) THEN 0 ELSE 1 + WordLen(Tail(t))

\* str.split(): the maximal runs of non-whitespace characters
RECURSIVE split(_)
split(t) ==
    LET u == lstrip(t)
        k == WordLen(u)
    IN  IF u = <<>> THEN <<>>
        ELSE <<SubSeq(u, 1, k)>> \o split(SubSeq(u, k + 1, Len(u)))

\* sep.join(words)
RECURSIVE join(_, _)
join(sep, words) ==
    IF words = <<>> THEN <<>>
    ELSE IF Len(words) = 1 THEN words[1]
    ELSE words[1] \o sep \o join(sep, Tail(words))

\* the whitespace collapsed before the punctuation is removed
_normalize_punct_last(text) ==
    remove_punctuation(join(<<" ">>, split(strip(lower(text)))))

\* _normalize: lower().strip(), drop the punctuation, ' '.join(text.split())
_normalize(text) ==
    join(<<" ">>, split(remove_punctuation(strip(lower(text)))))

----------------------------------------------------------------------------
(* The scorer: PronunciationScorer.calculate_score *)

Max(a, b) == IF a > b THEN a ELSE b

\* the length of a longest common subsequence of two texts
RECURSIVE LCSLen(_, _)
LCSLen(a, b) ==
    IF a = <<>> \/ b = <<>> THEN 0
    ELSE IF Head(a) = Head(b) THEN 1 + LCSLen(Tail(a), Tail(b))
    ELSE Max(LCSLen(Tail(a), b), LCSLen(a, Tail(b)))

\* Levenshtein.ratio as a fraction: (lensum - distance) / lensum, where the
\* distance counts an insertion or deletion 1 and a substitution 2, that
\* is lensum - 2 * LCSLen; 1 for two empty strings
ratio(s1, s2) ==
    IF Len(s1) + Len(s2) = 0 THEN [num |-> 1, den |-> 1]
    ELSE [num |-> 2 * LCSLen(s1, s2), den |-> Len(s1) + Len(s2)]

\* round(similarity * 100, 1), in tenths of a point: 1000 is 100.0; no
\* fraction here falls on a tie, which takes a denominator of 32 or more
round_tenths(similarity) ==
    (2 * 1000 * similarity.num + similarity.den) \div (2 * similarity.den)

\* the two texts compared as they are given
calculate_score_raw(standard, transcribed) ==
    LET s1 == standard
        s2 == transcribed
    IN  IF s1 = <<>> /\ s2 = <<>> THEN 1000
        ELSE IF s1 = <<>> \/ s2 = <<>> THEN 0
        ELSE round_tenths(ratio(s1, s2))

\* calculate_score, in tenths of a point
calculate_score(standard, transcribed) ==
    LET s1 == _normalize(standard)
        s2 == _normalize(transcribed)
    IN  IF s1 = <<>> /\ s2 = <<>> THEN 1000
        ELSE IF s1 = <<>> \/ s2 = <<>> THEN 0
        ELSE round_tenths(ratio(s1, s2))

----------------------------------------------------------------------------
(* The highlighter: TextHighlighter.highlight_diff *)

\* str.strip(chars)
RECURSIVE lstrip_chars(_, _)
lstrip_chars(t, chars) ==
    IF t # <<>> /\ Head(t) \in chars THEN lstrip_chars(Tail(t), chars) ELSE t

RECURSIVE rstrip_chars(_, _)
rstrip_chars(t, chars) ==
    IF t # <<>> /\ t[Len(t)] \in chars
    THEN rstrip_chars(SubSeq(t, 1, Len(t) - 1), chars)
    ELSE t

\* _normalize_word: word.lower().strip(string.punctuation)
_normalize_word(word) ==
    rstrip_chars(lstrip_chars(lower(word), Punctuation), Punctuation)

\* the inner loop of highlight_diff from position j on: the position at
\* which it breaks, 0 if it runs to the end (positions count from 1)
RECURSIVE first_match(_, _, _, _)
first_match(normalized_s, t_words, matched_indices, j) ==
    IF j > Len(t_words) THEN 0
    ELSE IF j \in matched_indices
         THEN first_match(normalized_s, t_words, matched_indices, j + 1)
    ELSE IF normalized_s = _normalize_word(t_words[j]) THEN j
    ELSE first_match(normalized_s, t_words, matched_indices, j + 1)

\* the outer loop of highlight_diff from word i on; found[i] is the
\* position at which the inner loop broke for word i, 0 if not found
RECURSIVE match_words(_, _, _, _)
match_words(s_words, t_words, i, acc) ==
    IF i > Len(s_words) THEN acc
    ELSE LET j == first_match(_normalize_word(s_words[i]), t_words,
                              acc.matched_indices, 1)
         IN  match_words(s_words, t_words, i + 1,
                [matched_indices |-> IF j = 0 THEN acc.matched_indices
                                     ELSE acc.matched_indices \cup {j},
                 found |-> Append(acc.found, j)])

\* highlight_diff whose inner loop does not skip the matched positions
highlight_diff_unconsumed(standard, transcribed) ==
    LET s_words == split(standard)
        t_words == split(transcribed)
        found == [i \in 1..Len(s_words) |->
                    first_match(_normalize_word(s_words[i]), t_words, {}, 1)]
        matched_indices == {found[i] : i \in 1..Len(s_words)} \ {0}
    IN  [s_words |-> s_words,
         t_words |-> t_words,
         found |-> found,
         matched_indices |-> matched_indices,
         standard_text |->
            [i \in 1..Len(s_words) |->
                [word |-> s_words[i],
                 style |-> IF found[i] # 0 THEN "bold green" ELSE "bold red"]],
         transcribed_text |->
            [j \in 1..Len(t_words) |->
                [word |-> t_words[j],
                 style |-> IF j \in matched_indices THEN "green" ELSE "dim"]]]

\* highlight_diff comparing the two texts position by position
highlight_diff_positional(standard, transcribed) ==
    LET s_words == split(standard)
        t_words == split(transcribed)
        found == [i \in 1..Len(s_words) |->
                    IF /\ i <= Len(t_words)
                       /\ _normalize_word(s_words[i]) = _normalize_word(t_words[i])
                    THEN i ELSE 0]
        matched_indices == {found[i] : i \in 1..Len(s_words)} \ {0}
    IN  [s_words |-> s_words,
         t_words |-> t_words,
         found |-> found,
         matched_indices |-> matched_indices,
         standard_text |->
            [i \in 1..Len(s_words) |->
                [word |-> s_words[i],
                 style |-> IF found[i] # 0 THEN "bold green" ELSE "bold red"]],
         transcribed_text |->
            [j \in 1..Len(t_words) |->
                [word |-> t_words[j],
                 style |-> IF j \in matched_indices THEN "green" ELSE "dim"]]]

\* highlight_diff styling a transcribed word green when its normalised word
\* occurs in the standard text, matched or not
highlight_diff_member(standard, transcribed) ==
    LET s_words == split(standard)
        t_words == split(transcribed)
        m == match_words(s_words, t_words, 1,
                         [matched_indices |-> {}, found |-> <<>>])
    IN  [s_words |-> s_words,
         t_words |-> t_words,
         found |-> m.found,
         matched_indices |-> m.matched_indices,
         standard_text |->
            [i \in 1..Len(s_words) |->
                [word |-> s_words[i],
                 style |-> IF m.found[i] # 0 THEN "bold green" ELSE "bold red"]],
         transcribed_text |->
            [j \in 1..Len(t_words) |->
                [word |-> t_words[j],
                 style |-> IF \E i \in 1..Len(s_words) :
                                _normalize_word(s_words[i]) =
                                   _normalize_word(t_words[j])
                           THEN "green" ELSE "dim"]]]

\* highlight_diff up to the two styled texts it prints (the score is only
\* printed)
highlight_diff(standard, transcribed) ==
    LET s_words == split(standard)
        t_words == split(transcribed)
        m == match_words(s_words, t_words, 1,
                         [matched_indices |-> {}, found |-> <<>>])
    IN  [s_words |-> s_words,
         t_words |-> t_words,
         found |-> m.found,
         matched_indices |-> m.matched_indices,
         standard_text |->
            [i \in 1..Len(s_words) |->
                [word |-> s_words[i],
                 style |-> IF m.found[i] # 0 THEN "bold green" ELSE "bold red"]],
         transcribed_text |->
            [j \in 1..Len(t_words) |->
                [word |-> t_words[j],
                 style |-> IF j \in m.matched_indices THEN "green" ELSE "dim"]]]

\* ShadowingSession._score_and_display: the score, then the highlight of
\* the same pair
score_and_display(standard, transcribed) ==
    [score |-> calculate_score(standard, transcribed),
     diff |-> highlight_diff(standard, transcribed)]

\* get_word_accuracy: (correct, total, accuracy), the accuracy in tenths of
\* a percent
get_word_accuracy(standard, transcribed) ==
    LET words1 == split(standard)
        words2 == split(transcribed)
        w1 == [k \in 1..Len(words1) |-> _normalize_word(words1[k])]
        w2 == [k \in 1..Len(words2) |-> _normalize_word(words2[k])]
        correct == Cardinality({k \in 1..Len(w2) :
                                  \E i \in 1..Len(w1) : w2[k] = w1[i]})
        total == Len(w1)
    IN  [correct |-> correct, total |-> total,
         accuracy |-> IF total > 0
                      THEN round_tenths([num |-> correct, den |-> total])
                      ELSE 0]

----------------------------------------------------------------------------
(* State *)

VARIABLES
    today,   \* date.today(), a day ordinal
    vocab,   \* the vocab table: id -> row
    seq,     \* sqlite_sequence of vocab: the largest id ever assigned
    youtube_lessons, \* the youtube_lessons table: id -> row
    youtube_seq,     \* sqlite_sequence of youtube_lessons
    sess,    \* the review flows: flow -> [pc, due_words, current_index]
    op       \* the last call and what it returned

vars == <<today, vocab, seq, youtube_lessons, youtube_seq, sess, op>>

\* review.py's ReviewMode.run and gui.py's show_review
Flows == {"cli", "gui"}

\* the ratings a review flow can produce: ReviewMode.QUALITY_OPTIONS and
\* the four buttons of gui.py
SessionQualities == {0, 3, 4, 5}

Idle == [pc |-> "idle", due_words |-> <<>>, current_index |-> 0]

\* the row INSERT INTO vocab creates: review_stage DEFAULT 0, last_quality
\* NULL, created_at DEFAULT CURRENT_TIMESTAMP (kept to the day)
NewRow(id, word, meaning, context_sentence, next_review_date, now) ==
    [id |-> id, word |-> word, meaning |-> meaning,
     context_sentence |-> context_sentence,
     review_stage |-> 0,
     next_review_date |-> adapt_date[next_review_date],
     last_quality |-> None,
     created_at |-> now]

\* the row INSERT INTO youtube_lessons creates, with the scheduling columns
\* and the text of the segment: review_stage DEFAULT 0, last_quality NULL
NewLesson(id, next_review_date, now) ==
    [id |-> id, hindi_text |-> <<"x">>,
     review_stage |-> 0,
     next_review_date |-> adapt_date[next_review_date],
     last_quality |-> None,
     created_at |-> now]

\* the day on which an item added on day 0 and rated 4 at every review has
\* reached stage s and is due again
DueDayOfStage == <<4, 11, 25, 55, 145>>

\* The database file outlives the process: a run starts on an empty file or
\* on one that holds an item of an earlier run, here the item added on day 0
\* and rated 4 whenever it was due, on the day it is due again, and a lesson
\* segment added on day 0 and never reviewed.
\* a new database file
EmptyStore ==
    /\ today = 0
    /\ vocab = <<>>
    /\ seq = 0
    /\ youtube_lessons = <<>>
    /\ youtube_seq = 0

Init ==
    /\ \/ EmptyStore
       \/ \E s \in {5} :
             /\ today = DueDayOfStage[s]
             /\ vocab = (1 :> [NewRow(1, <<"x">>, <<"y">>, None, 1, 0)
                                 EXCEPT !.review_stage = s,
                                        !.next_review_date = adapt_date[DueDayOfStage[s]],
                                        !.last_quality = Some(4)])
             /\ seq = 1
             /\ youtube_lessons = (1 :> NewLesson(1, 1, 0))
             /\ youtube_seq = 1
    /\ sess = [f \in Flows |-> Idle]
    /\ op = [name |-> "init"]

----------------------------------------------------------------------------
(* The store: VocabDatabase *)

\* the first review set to today instead of tomorrow
add_word_today(word, meaning, context_sentence) ==
    LET id == seq + 1
    IN  /\ vocab' = (id :> NewRow(id, word, meaning, context_sentence,
                                  today, today)) @@ vocab
        /\ seq' = id
        /\ op' = [name |-> "add_word", word |-> word, ret |-> id,
                  error |-> "none"]

\* the table without AUTOINCREMENT: the new rowid is one more than the
\* largest rowid now in the table
add_word_rowid(word, meaning, context_sentence) ==
    LET tomorrow == today + 1
        id == IF DOMAIN vocab = {} THEN 1
              ELSE (CHOOSE m \in DOMAIN vocab :
                       \A i \in DOMAIN vocab : i <= m) + 1
    IN  /\ vocab' = (id :> NewRow(id, word, meaning, context_sentence,
                                  tomorrow, today)) @@ vocab
        /\ seq' = id
        /\ op' = [name |-> "add_word", word |-> word, ret |-> id,
                  error |-> "none"]

\* INSERT INTO vocab (word, meaning, context_sentence, next_review_date);
\* id is INTEGER PRIMARY KEY AUTOINCREMENT: one more than the largest id
\* the table ever held (sqlite_sequence, here seq)
add_word(word, meaning, context_sentence) ==
    LET tomorrow == today + 1
        id == seq + 1
    IN  /\ vocab' = (id :> NewRow(id, word, meaning, context_sentence,
                                  tomorrow, today)) @@ vocab
        /\ seq' = id
        /\ op' = [name |-> "add_word", word |-> word, ret |-> id,
                  error |-> "none"]

\* the rows of WHERE next_review_date < ?
DueRows_strict(table, now) ==
    {table[i] : i \in {j \in DOMAIN table :
                         TextLT(table[j].next_review_date, adapt_date[now])}}

\* the rows SELECT ... WHERE next_review_date <= ? selects
DueRows(table, now) ==
    {table[i] : i \in {j \in DOMAIN table :
                         TextLE(table[j].next_review_date, adapt_date[now])}}

\* ORDER BY next_review_date ASC
OrderedByDate(s) ==
    \A i, j \in 1..Len(s) :
        i < j => TextLE(s[i].next_review_date, s[j].next_review_date)

\* every order of the rows of a set
Orderings(rows) ==
    {s \in [1..Cardinality(rows) -> rows] :
        \A i, j \in 1..Cardinality(rows) : s[i] = s[j] => i = j}

\* get_due_words: the lists the query may return (SQL leaves the order of
\* rows with equal dates open)
get_due_words(table, now) ==
    {s \in Orderings(DueRows(table, now)) : OrderedByDate(s)}

\* the UPDATE without its WHERE clause
update_review_all(word_id, quality, next_date, new_stage) ==
    vocab' = [i \in DOMAIN vocab |->
                [vocab[i] EXCEPT !.review_stage = new_stage,
                                 !.next_review_date = adapt_date[next_date],
                                 !.last_quality = Some(quality)]]

\* the row replaced instead of updated: created_at is set anew
update_review_replace(word_id, quality, next_date, new_stage) ==
    vocab' = [i \in DOMAIN vocab |->
                IF vocab[i].id = word_id
                THEN [vocab[i] EXCEPT !.review_stage = new_stage,
                                      !.next_review_date = adapt_date[next_date],
                                      !.last_quality = Some(quality),
                                      !.created_at = today]
                ELSE vocab[i]]

\* update_review only setting review_stage (the other two columns would be
\* set by statements of their own)
update_review_stage_only(word_id, quality, next_date, new_stage) ==
    vocab' = [i \in DOMAIN vocab |->
                IF vocab[i].id = word_id
                THEN [vocab[i] EXCEPT !.review_stage = new_stage]
                ELSE vocab[i]]

\* UPDATE vocab SET review_stage, next_review_date, last_quality WHERE id
update_review(word_id, quality, next_date, new_stage) ==
    vocab' = [i \in DOMAIN vocab |->
                IF vocab[i].id = word_id
                THEN [vocab[i] EXCEPT !.review_stage = new_stage,
                                      !.next_review_date = adapt_date[next_date],
                                      !.last_quality = Some(quality)]
                ELSE vocab[i]]

\* the distribution filled with a count for every stage 0..5
StageDistribution_filled(table) ==
    [s \in 0..5 |->
        Cardinality({i \in DOMAIN table : table[i].review_stage = s})]

\* SELECT review_stage, COUNT(*) FROM vocab GROUP BY review_stage
StageDistribution(table) ==
    [s \in {table[i].review_stage : i \in DOMAIN table} |->
        Cardinality({i \in DOMAIN table : table[i].review_stage = s})]

get_statistics(table, now) ==
    [total_words |-> Cardinality(DOMAIN table),
     due_today |-> Cardinality({i \in DOMAIN table :
                      TextLE(table[i].next_review_date, adapt_date[now])}),
     stage_distribution |-> StageDistribution(table)]

\* the DELETE without its WHERE clause
delete_word_all(word_id) ==
    vocab' = <<>>

\* DELETE FROM vocab WHERE id = ?
delete_word(word_id) ==
    vocab' = [i \in {j \in DOMAIN vocab : vocab[j].id # word_id} |-> vocab[i]]

----------------------------------------------------------------------------
(* The store's lesson segments: the youtube_lessons methods *)

\* the first review of a lesson set to today instead of tomorrow
add_youtube_lesson_today(hindi_text) ==
    LET id == youtube_seq + 1
    IN  /\ youtube_lessons' = (id :> NewLesson(id, today, today))
                                 @@ youtube_lessons
        /\ youtube_seq' = id

\* INSERT INTO youtube_lessons (..., next_review_date); the segment's
\* file, times and texts play no part in the scheduling
add_youtube_lesson(hindi_text) ==
    LET tomorrow == today + 1
        id == youtube_seq + 1
    IN  /\ youtube_lessons' = (id :> NewLesson(id, tomorrow, today))
                                 @@ youtube_lessons
        /\ youtube_seq' = id

\* get_due_youtube_lessons: SELECT * FROM youtube_lessons WHERE
\* next_review_date <= ? ORDER BY next_review_date ASC
get_due_youtube_lessons(table, now) ==
    {s \in Orderings({table[i] : i \in {j \in DOMAIN table :
                         TextLE(table[j].next_review_date, adapt_date[now])}}) :
        OrderedByDate(s)}

\* UPDATE youtube_lessons SET review_stage, next_review_date, last_quality
\* WHERE id
update_youtube_review(lesson_id, quality, next_date, new_stage) ==
    youtube_lessons' =
        [i \in DOMAIN youtube_lessons |->
            IF youtube_lessons[i].id = lesson_id
            THEN [youtube_lessons[i] EXCEPT
                     !.review_stage = new_stage,
                     !.next_review_date = adapt_date[next_date],
                     !.last_quality = Some(quality)]
            ELSE youtube_lessons[i]]

----------------------------------------------------------------------------
(* Calls of the store *)


\* add_word called directly, with any arguments
AddWord ==
    /\ seq < MaxId
    /\ \E word \in {<<>>, <<"x">>}, meaning \in {<<"y">>} :
          add_word(word, meaning, None)
    /\ UNCHANGED <<today, sess, youtube_lessons, youtube_seq>>

\* get_due_words called on its own (main_gui.py show_review): every row the
\* SELECT yields is returned as a dict, no column is inspected
GetDueWords ==
    /\ \E due \in get_due_words(vocab, today) :
          op' = [name |-> "get_due_words", ret |-> due, error |-> "none"]
    /\ UNCHANGED <<today, vocab, seq, sess, youtube_lessons, youtube_seq>>

\* the ratings and stages a direct call of update_review passes
DirectRatings == {[quality |-> 4, new_stage |-> 2],
                  [quality |-> 0, new_stage |-> 5]}

\* update_review called directly, with any id, rating, date and stage; the
\* method has no raise and never reads the cursor's rowcount, so it returns
\* None whatever the UPDATE matched
UpdateReview ==
    /\ \E word_id \in 1..MaxId, r \in DirectRatings,
          next_date \in {today, today + 1} :
          /\ update_review(word_id, r.quality, next_date, r.new_stage)
          /\ op' = [name |-> "update_review", word_id |-> word_id,
                    quality |-> r.quality, next_date |-> next_date,
                    new_stage |-> r.new_stage, flow |-> "api",
                    error |-> "none"]
    /\ UNCHANGED <<today, seq, sess, youtube_lessons, youtube_seq>>

\* what each of the two processes passes to update_review: different
\* ratings, stages and dates, so that mixed rows would show
TxnRatings ==
    [cli |-> [quality |-> 4, new_stage |-> 2, next_date |-> 1],
     gui |-> [quality |-> 0, new_stage |-> 5, next_date |-> 0]]

\* a connection of update_review that is not in a transaction
NoTxn == [pc |-> "idle", pending |-> None]

\* update_review up to cursor.execute: the UPDATE runs in the connection's
\* implicit transaction, which holds the database's write lock (a second
\* writer waits in execute); other connections still read the old row
execute_update(f) ==
    /\ sess[f].pc = "idle"
    /\ \A g \in DOMAIN sess : sess[g].pc # "executed"
    /\ \E word_id \in 1..MaxId :
          LET r == TxnRatings[f]
              pending == [word_id |-> word_id, quality |-> r.quality,
                          next_date |-> r.next_date, new_stage |-> r.new_stage]
          IN  /\ sess' = [sess EXCEPT ![f] = [pc |-> "executed",
                                              pending |-> Some(pending)]]
              /\ op' = [name |-> "execute", flow |-> f]
    /\ UNCHANGED <<today, vocab, seq, youtube_lessons, youtube_seq>>

\* conn.commit(): the one UPDATE becomes visible as a whole
commit_update(f) ==
    /\ sess[f].pc = "executed"
    /\ LET pending == sess[f].pending[1]
       IN  /\ update_review(pending.word_id, pending.quality,
                            pending.next_date, pending.new_stage)
           /\ op' = [name |-> "update_review", word_id |-> pending.word_id,
                     quality |-> pending.quality,
                     next_date |-> pending.next_date,
                     new_stage |-> pending.new_stage, flow |-> f,
                     error |-> "none"]
    /\ sess' = [sess EXCEPT ![f] = NoTxn]
    /\ UNCHANGED <<today, seq, youtube_lessons, youtube_seq>>

\* the process dies between execute and commit: SQLite rolls the
\* transaction back from its journal when the file is next opened
crash_update(f) ==
    /\ sess[f].pc = "executed"
    /\ sess' = [sess EXCEPT ![f] = NoTxn]
    /\ op' = [name |-> "crash", flow |-> f]
    /\ UNCHANGED <<today, vocab, seq, youtube_lessons, youtube_seq>>

ExecuteUpdate == \E f \in Flows : execute_update(f)

CommitUpdate == \E f \in Flows : commit_update(f)

CrashUpdate == \E f \in Flows : crash_update(f)

\* a rating and a stage outside 0..5
OutOfRangeRatings == {[quality |-> 6, new_stage |-> 7]}

\* update_review called directly with a rating and a stage outside 0..5:
\* the UPDATE binds the parameters as they come
UpdateReviewOutOfRange ==
    /\ \E word_id \in 1..MaxId, r \in OutOfRangeRatings,
          next_date \in {today, today + 1} :
          /\ update_review(word_id, r.quality, next_date, r.new_stage)
          /\ op' = [name |-> "update_review", word_id |-> word_id,
                    quality |-> r.quality, next_date |-> next_date,
                    new_stage |-> r.new_stage, flow |-> "api",
                    error |-> "none"]
    /\ UNCHANGED <<today, seq, sess, youtube_lessons, youtube_seq>>

\* main.py show_statistics, ReviewMode.show_statistics, the GUI home pages
GetStatistics ==
    /\ op' = [name |-> "get_statistics", ret |-> get_statistics(vocab, today)]
    /\ UNCHANGED <<today, vocab, seq, sess, youtube_lessons, youtube_seq>>

\* delete_word called directly (it has no caller in the program): a DELETE
\* that matches no row is no error
DeleteWord ==
    /\ \E word_id \in 1..MaxId :
          /\ delete_word(word_id)
          /\ op' = [name |-> "delete_word", word_id |-> word_id,
                    error |-> "none"]
    /\ UNCHANGED <<today, seq, sess, youtube_lessons, youtube_seq>>

\* midnight passes
NextDay ==
    /\ \E s \in StartDays : s <= today /\ today < s + MaxDays
    /\ today' = today + 1
    /\ op' = [name |-> "next_day"]
    /\ UNCHANGED <<vocab, seq, sess, youtube_lessons, youtube_seq>>

\* a word and a lesson segment added on the same day
AddBoth ==
    /\ seq < MaxId
    /\ add_word(<<"x">>, <<"y">>, None)
    /\ add_youtube_lesson(<<"x">>)
    /\ UNCHANGED <<today, sess>>

\* update_review and update_youtube_review called with the same arguments
UpdateBoth ==
    /\ \E id \in 1..MaxId, r \in DirectRatings,
          next_date \in {today, today + 1} :
          /\ update_review(id, r.quality, next_date, r.new_stage)
          /\ update_youtube_review(id, r.quality, next_date, r.new_stage)
          /\ op' = [name |-> "update_both", id |-> id,
                    quality |-> r.quality, next_date |-> next_date,
                    new_stage |-> r.new_stage]
    /\ UNCHANGED <<today, seq, youtube_seq, sess>>

\* get_due_words and get_due_youtube_lessons called on the same day
QueryBoth ==
    /\ \E words \in get_due_words(vocab, today),
          lessons \in get_due_youtube_lessons(youtube_lessons, today) :
          op' = [name |-> "query_both", words |-> words, lessons |-> lessons]
    /\ UNCHANGED <<today, vocab, seq, youtube_lessons, youtube_seq, sess>>

----------------------------------------------------------------------------
(* The program's callers *)

\* main.py add_vocabulary: both prompts are stripped and must be non-empty
add_vocabulary(word_in, meaning_in, context_in) ==
    LET word == strip(word_in)
        meaning == strip(meaning_in)
        context == IF strip(context_in) = <<>> THEN None
                   ELSE Some(strip(context_in))
    IN  IF word = <<>> \/ meaning = <<>>
        THEN /\ op' = [name |-> "add_vocabulary", word |-> word,
                       ret |-> "rejected"]
             /\ UNCHANGED <<vocab, seq>>
        ELSE add_word(word, meaning, context)

AddVocabulary ==
    /\ seq < MaxId
    /\ \E word_in \in Typed, meaning_in \in {<<>>, <<"y">>} :
          add_vocabulary(word_in, meaning_in, <<>>)
    /\ UNCHANGED <<today, sess, youtube_lessons, youtube_seq>>

\* one rating persisted with today's date instead of the scheduled date
review_today(f, word_data, quality, last_interval) ==
    LET result == calculate_next_review(today, word_data.review_stage,
                                        quality, last_interval)
    IN  /\ update_review(word_data.id, quality, today, result.new_stage)
        /\ op' = [name |-> "update_review", word_id |-> word_data.id,
                  quality |-> quality, next_date |-> today,
                  new_stage |-> result.new_stage, flow |-> f,
                  error |-> "none"]

\* what one rating does in both flows: schedule from the stage the flow
\* fetched, then persist
review(f, word_data, quality, last_interval) ==
    LET result == calculate_next_review(today, word_data.review_stage,
                                        quality, last_interval)
    IN  /\ update_review(word_data.id, quality, result.next_date,
                         result.new_stage)
        /\ op' = [name |-> "update_review", word_id |-> word_data.id,
                  quality |-> quality, next_date |-> result.next_date,
                  new_stage |-> result.new_stage, flow |-> f,
                  error |-> "none"]

\* ReviewMode.run up to the first prompt: fetch the due words
run ==
    /\ sess["cli"].pc # "reviewing"
    /\ \E due \in get_due_words(vocab, today) :
          /\ sess' = [sess EXCEPT !["cli"] =
                        IF due = <<>>
                        THEN [pc |-> "done", due_words |-> due, current_index |-> 0]
                        ELSE [pc |-> "reviewing", due_words |-> due,
                              current_index |-> 1]]
          /\ op' = [name |-> "run", ret |-> due]
    /\ UNCHANGED <<today, vocab, seq, youtube_lessons, youtube_seq>>

\* the loop of run that stays on the word it has just rated
review_word_again ==
    /\ sess["cli"].pc = "reviewing"
    /\ LET s == sess["cli"]
           word_data == s.due_words[s.current_index]
       IN  /\ \E quality \in SessionQualities :
                 review("cli", word_data, quality, None)
           /\ sess' = sess
    /\ UNCHANGED <<today, seq, youtube_lessons, youtube_seq>>

\* ReviewMode._review_word for the next word of the loop in run; the row
\* has no last_interval key, so word_data.get('last_interval') is None
review_word ==
    /\ sess["cli"].pc = "reviewing"
    /\ LET s == sess["cli"]
           word_data == s.due_words[s.current_index]
       IN  /\ \E quality \in SessionQualities :
                 review("cli", word_data, quality, None)
           /\ sess' = [sess EXCEPT !["cli"] =
                         IF s.current_index = Len(s.due_words)
                         THEN [pc |-> "done", due_words |-> <<>>, current_index |-> Len(s.due_words)]
                         ELSE [s EXCEPT !.current_index = @ + 1]]
    /\ UNCHANGED <<today, seq, youtube_lessons, youtube_seq>>

\* ReviewMode._review_word when update_review raises (sqlite3.Error out of
\* connect, execute or commit, the transaction is rolled back): neither
\* _review_word nor the loop of run has a handler around lines 94-110, so
\* the exception leaves run; main() prints it and returns
review_word_raises ==
    /\ sess["cli"].pc = "reviewing"
    /\ LET s == sess["cli"]
           word_data == s.due_words[s.current_index]
       IN  /\ \E quality \in SessionQualities :
                 LET result == calculate_next_review(today,
                                  word_data.review_stage, quality, None)
                 IN  op' = [name |-> "update_review",
                            word_id |-> word_data.id, quality |-> quality,
                            next_date |-> result.next_date,
                            new_stage |-> result.new_stage, flow |-> "cli",
                            error |-> "sqlite3.Error"]
           /\ sess' = [sess EXCEPT !["cli"] =
                         [pc |-> "aborted", due_words |-> <<>>,
                          current_index |-> s.current_index]]
    /\ UNCHANGED <<today, vocab, seq, youtube_lessons, youtube_seq>>

\* two processes of the command-line program on the same database file
Procs == {"p1", "p2"}

\* ReviewMode.run in process p up to the first prompt
run_of(p) ==
    /\ sess[p].pc # "reviewing"
    /\ \E due \in get_due_words(vocab, today) :
          /\ sess' = [sess EXCEPT ![p] =
                        IF due = <<>>
                        THEN [pc |-> "done", due_words |-> due, current_index |-> 0]
                        ELSE [pc |-> "reviewing", due_words |-> due,
                              current_index |-> 1]]
          /\ op' = [name |-> "run", flow |-> p, ret |-> due]
    /\ UNCHANGED <<today, vocab, seq, youtube_lessons, youtube_seq>>

\* ReviewMode._review_word in process p for the next word of its list
review_word_of(p) ==
    /\ sess[p].pc = "reviewing"
    /\ LET s == sess[p]
           word_data == s.due_words[s.current_index]
       IN  /\ \E quality \in SessionQualities :
                 review(p, word_data, quality, None)
           /\ sess' = [sess EXCEPT ![p] =
                         IF s.current_index = Len(s.due_words)
                         THEN [pc |-> "done", due_words |-> <<>>,
                               current_index |-> Len(s.due_words)]
                         ELSE [s EXCEPT !.current_index = @ + 1]]
    /\ UNCHANGED <<today, seq, youtube_lessons, youtube_seq>>

RunOf == \E p \in Procs : run_of(p)

ReviewWordOf == \E p \in Procs : review_word_of(p)

\* gui.py show_review: fetch the due words, index 0
show_review ==
    /\ \E due \in get_due_words(vocab, today) :
          /\ sess' = [sess EXCEPT !["gui"] =
                        IF due = <<>>
                        THEN [pc |-> "done", due_words |-> due, current_index |-> 0]
                        ELSE [pc |-> "reviewing", due_words |-> due,
                              current_index |-> 1]]
          /\ op' = [name |-> "show_review", ret |-> due]
    /\ UNCHANGED <<today, vocab, seq, youtube_lessons, youtube_seq>>

\* gui.py rate_word, the handler of the four rating buttons
rate_word ==
    /\ sess["gui"].pc = "reviewing"
    /\ LET s == sess["gui"]
           word == s.due_words[s.current_index]
       IN  /\ \E quality \in SessionQualities :
                 review("gui", word, quality, None)
           /\ sess' = [sess EXCEPT !["gui"] =
                         IF s.current_index = Len(s.due_words)
                         THEN [pc |-> "done", due_words |-> <<>>, current_index |-> Len(s.due_words)]
                         ELSE [s EXCEPT !.current_index = @ + 1]]
    /\ UNCHANGED <<today, seq, youtube_lessons, youtube_seq>>

\* gui.py on_save of the add page: both fields must be non-empty, nothing
\* is stripped, and nothing happens otherwise
on_save(word_value, meaning_value, context_value) ==
    IF word_value # <<>> /\ meaning_value # <<>>
    THEN add_word(word_value, meaning_value,
                  IF context_value # <<>> THEN Some(context_value) ELSE None)
    ELSE /\ op' = [name |-> "on_save", word |-> word_value, ret |-> "ignored"]
         /\ UNCHANGED <<vocab, seq>>

OnSave ==
    /\ seq < MaxId
    /\ \E word_value \in Typed, meaning_value \in {<<>>, <<"y">>} :
          on_save(word_value, meaning_value, <<>>)
    /\ UNCHANGED <<today, sess, youtube_lessons, youtube_seq>>

----------------------------------------------------------------------------
(* Specifications *)

\* the command-line program (main.py): add a word, review the due words,
\* show the statistics; delete_word has no caller and is called directly
Next ==
    \/ AddVocabulary
    \/ run
    \/ review_word
    \/ GetStatistics
    \/ DeleteWord
    \/ NextDay

Spec == Init /\ [][Next]_vars

\* the command-line program with a user who answers every rating prompt:
\* _review_word blocks in Prompt.ask and returns once a rating is typed, so
\* the for loop of run goes on to the next word
FairSpec == Spec /\ WF_vars(review_word)

\* the command-line program on a database whose writes may fail
FaultNext ==
    \/ AddVocabulary
    \/ run
    \/ review_word
    \/ review_word_raises
    \/ GetStatistics
    \/ DeleteWord
    \/ NextDay

FaultSpec == Init /\ [][FaultNext]_vars

\* the graphical program (gui.py) on the same database file
GuiNext ==
    \/ OnSave
    \/ show_review
    \/ rate_word
    \/ GetStatistics
    \/ NextDay

GuiSpec == Init /\ [][GuiNext]_vars

\* the store as a library: every operation with any arguments
StoreNext ==
    \/ AddWord
    \/ UpdateReview
    \/ DeleteWord
    \/ GetDueWords
    \/ GetStatistics
    \/ NextDay

StoreInit ==
    /\ EmptyStore
    /\ sess = [f \in Flows |-> Idle]
    /\ op = [name |-> "init"]

StoreSpec == StoreInit /\ [][StoreNext]_vars

\* the word methods and the lesson methods of the store called side by side
PairNext ==
    \/ AddBoth
    \/ UpdateBoth
    \/ QueryBoth
    \/ NextDay

PairSpec == StoreInit /\ [][PairNext]_vars

\* two processes of the command-line program reviewing at the same time
RaceNext ==
    \/ AddVocabulary
    \/ RunOf
    \/ ReviewWordOf
    \/ NextDay

RaceInit ==
    /\ EmptyStore
    /\ sess = [p \in Procs |-> Idle]
    /\ op = [name |-> "init"]

RaceSpec == RaceInit /\ [][RaceNext]_vars

\* update_review statement by statement, called from two processes on the
\* same database file, either of which may die before its commit
TxnNext ==
    \/ AddWord
    \/ ExecuteUpdate
    \/ CommitUpdate
    \/ CrashUpdate

TxnInit ==
    /\ EmptyStore
    /\ sess = [f \in Flows |-> NoTxn]
    /\ op = [name |-> "init"]

TxnSpec == TxnInit /\ [][TxnNext]_vars

\* the store called with values outside the documented ranges as well
UnvalidatedNext ==
    \/ AddWord
    \/ UpdateReview
    \/ UpdateReviewOutOfRange
    \/ DeleteWord
    \/ GetDueWords
    \/ GetStatistics
    \/ NextDay

UnvalidatedSpec == StoreInit /\ [][UnvalidatedNext]_vars

\* the words of the standard texts and of the transcribed texts given to
\* highlight_diff
RefWords == {<<"a">>, <<"b">>, <<"c">>, <<"A", ",">>}
AttWords == {<<"a">>, <<"b">>, <<"c">>, <<"d">>}

\* the highlighter alone: one call of highlight_diff on any pair of texts
\* of at most MaxWords words
AlignInit ==
    /\ today = 0
    /\ vocab = <<>>
    /\ seq = 0
    /\ youtube_lessons = <<>>
    /\ youtube_seq = 0
    /\ sess = [f \in Flows |-> Idle]
    /\ \E s_words \in TextsOver(RefWords, MaxWords),
          t_words \in TextsOver(AttWords, MaxWords) :
          op = [name |-> "texts", standard |-> join(<<" ">>, s_words),
                transcribed |-> join(<<" ">>, t_words)]

HighlightDiff ==
    /\ op.name = "texts"
    /\ op' = [name |-> "highlight_diff", standard |-> op.standard,
              transcribed |-> op.transcribed,
              ret |-> highlight_diff(op.standard, op.transcribed)]
    /\ UNCHANGED <<today, vocab, seq, sess, youtube_lessons, youtube_seq>>

AlignNext == HighlightDiff

AlignSpec == AlignInit /\ [][AlignNext]_vars

\* the word accuracy alone: one call of get_word_accuracy on any pair of
\* texts of at most MaxWords words
GetWordAccuracy ==
    /\ op.name = "texts"
    /\ op' = [name |-> "get_word_accuracy", standard |-> op.standard,
              transcribed |-> op.transcribed,
              ret |-> get_word_accuracy(op.standard, op.transcribed)]
    /\ UNCHANGED <<today, vocab, seq, youtube_lessons, youtube_seq, sess>>

AccuracyNext == GetWordAccuracy

AccuracySpec == AlignInit /\ [][AccuracyNext]_vars

\* the characters of the texts given to calculate_score
ScoreChars == {"a", "b", "A", ",", " "}

\* the scorer alone: one call of calculate_score on any pair of texts
ScoreInit ==
    /\ today = 0
    /\ vocab = <<>>
    /\ seq = 0
    /\ youtube_lessons = <<>>
    /\ youtube_seq = 0
    /\ sess = [f \in Flows |-> Idle]
    /\ \E standard, transcribed \in TextsOver(ScoreChars, MaxScoreLen) :
          op = [name |-> "texts", standard |-> standard,
                transcribed |-> transcribed]

CalculateScore ==
    /\ op.name = "texts"
    /\ op' = [name |-> "calculate_score", standard |-> op.standard,
              transcribed |-> op.transcribed,
              ret |-> calculate_score(op.standard, op.transcribed)]
    /\ UNCHANGED <<today, vocab, seq, sess, youtube_lessons, youtube_seq>>

ScoreNext == CalculateScore

ScoreSpec == ScoreInit /\ [][ScoreNext]_vars

\* one shadowing attempt scored and displayed, on any pair of texts
ScoreAndDisplay ==
    /\ op.name = "texts"
    /\ op' = [name |-> "_score_and_display", standard |-> op.standard,
              transcribed |-> op.transcribed,
              ret |-> score_and_display(op.standard, op.transcribed)]
    /\ UNCHANGED <<today, vocab, seq, youtube_lessons, youtube_seq, sess>>

ShadowNext == ScoreAndDisplay

ShadowSpec == ScoreInit /\ [][ShadowNext]_vars

\* the characters of the texts given to _normalize: a letter in both cases,
\* a punctuation mark, a space and a tab
NormChars == {"a", "A", ",", " ", "\t"}

\* the normalisation alone: one call of _normalize on any text
NormInit ==
    /\ today = 0
    /\ vocab = <<>>
    /\ seq = 0
    /\ youtube_lessons = <<>>
    /\ youtube_seq = 0
    /\ sess = [f \in Flows |-> Idle]
    /\ \E text \in TextsOver(NormChars, MaxNormLen) :
          op = [name |-> "text", text |-> text]

Normalize ==
    /\ op.name = "text"
    /\ op' = [name |-> "_normalize", text |-> op.text,
              ret |-> _normalize(op.text)]
    /\ UNCHANGED <<today, vocab, seq, sess, youtube_lessons, youtube_seq>>

NormNext == Normalize

NormSpec == NormInit /\ [][NormNext]_vars

\* the scheduler alone: one call of calculate_next_review on any arguments;
\* the function has no raise, it returns a triple for every rating
SchedStages == 0..5
SchedQualities == -1..6
SchedIntervals == {None, Some(0), Some(1), Some(10), Some(90)}

SchedInit ==
    /\ today \in 0..MaxDays
    /\ vocab = <<>>
    /\ seq = 0
    /\ youtube_lessons = <<>>
    /\ youtube_seq = 0
    /\ sess = [f \in Flows |-> Idle]
    /\ \E current_stage \in SchedStages, quality \in SchedQualities,
          last_interval \in SchedIntervals :
          op = [name |-> "arguments", current_stage |-> current_stage,
                quality |-> quality, last_interval |-> last_interval]

Calculate ==
    /\ op.name = "arguments"
    /\ op' = [name |-> "calculate_next_review",
              current_stage |-> op.current_stage, quality |-> op.quality,
              last_interval |-> op.last_interval,
              ret |-> calculate_next_review(today, op.current_stage,
                                            op.quality, op.last_interval),
              error |-> "none"]
    /\ UNCHANGED <<today, vocab, seq, sess, youtube_lessons, youtube_seq>>

SchedNext == Calculate

SchedSpec == SchedInit /\ [][SchedNext]_vars

----------------------------------------------------------------------------
(* Properties of the scheduler *)

Called == op.name = "calculate_next_review"

\* the interval table as the specification states it
TableOfStage == [s \in 0..5 |-> CASE s = 0 -> 1 [] s = 1 -> 3 [] s = 2 -> 7
                                   [] s = 3 -> 14 [] s = 4 -> 30 [] s = 5 -> 90]

\* C1: a rating below 3 resets the item: whatever the current stage and
\* whether or not a last interval is supplied, the scheduler returns stage
\* 0, interval 1 and the date of tomorrow.
C1_ForgotResets ==
    (Called /\ op.quality < 3) =>
        /\ op.ret.new_stage = 0
        /\ op.ret.new_interval = 1
        /\ op.ret.next_date = today + 1

C1_Witness ==
    /\ Called
    /\ op.quality = 2
    /\ op.current_stage = 5
    /\ op.last_interval = Some(90)
    /\ op.ret.new_stage = 0

\* C2: a rating of 3 or more without a last interval advances the stage by
\* one, saturating at 5, and schedules the item after the table's interval
\* of the new stage; (0,5) gives (1,3), (1,4) gives (2,7), (4,5) and (5,5)
\* give (5,90).
C2_RememberedAdvances ==
    (Called /\ op.quality >= 3 /\ op.last_interval = None) =>
        /\ op.ret.new_stage =
              (IF op.current_stage + 1 > 5 THEN 5 ELSE op.current_stage + 1)
        /\ op.ret.new_interval = TableOfStage[op.ret.new_stage]
        /\ op.ret.next_date = today + op.ret.new_interval
        /\ (op.current_stage = 0 /\ op.quality = 5) =>
              (op.ret.new_stage = 1 /\ op.ret.new_interval = 3)
        /\ (op.current_stage = 1 /\ op.quality = 4) =>
              (op.ret.new_stage = 2 /\ op.ret.new_interval = 7)
        /\ (op.current_stage \in {4, 5} /\ op.quality = 5) =>
              (op.ret.new_stage = 5 /\ op.ret.new_interval = 90)

C2_Witness ==
    /\ Called
    /\ op.quality = 5
    /\ op.current_stage = 5
    /\ op.last_interval = None
    /\ op.ret.new_stage = 5
    /\ op.ret.new_interval = 90

\* round(L * 1.3) for the intervals of SchedIntervals (none of them is a tie)
RoundEF(L) == (L * 13 + 5) \div 10

\* C3: an item at stage 5 rated 3 or more with a last interval L supplied
\* stays at stage 5 and gets the interval round(L * 1.3); (5, 4, 90) gives
\* 117.
C3_GrowsBeyondTable ==
    (Called /\ op.current_stage = 5 /\ op.quality >= 3
            /\ op.last_interval # None) =>
        /\ op.ret.new_stage = 5
        /\ op.ret.new_interval = RoundEF(op.last_interval[1])

----------------------------------------------------------------------------
(* Properties of the store and of the review flows *)

\* the day a stored date text stands for
OrdinalTable ==
    [text \in {adapt_date[n] : n \in 0..Horizon} |->
        CHOOSE n \in 0..Horizon : adapt_date[n] = text]

OrdinalOf(text) == OrdinalTable[text]

\* the ids of the items whose next review date has arrived
DueIds(now) ==
    {i \in DOMAIN vocab : OrdinalOf(vocab[i].next_review_date) <= now}

IdsOf(list) == {list[k].id : k \in 1..Len(list)}

C5_NewItemDueTomorrow ==
    /\ op.name = "add_word" =>
          /\ op.ret \in DOMAIN vocab
          /\ vocab[op.ret].review_stage = 0
          /\ OrdinalOf(vocab[op.ret].next_review_date) = today + 1
          /\ vocab[op.ret].last_quality = None
          /\ \A due \in get_due_words(vocab, today) : op.ret \notin IdsOf(due)
          /\ \A due \in get_due_words(vocab, today + 1) : op.ret \in IdsOf(due)
    /\ op.name = "run" =>
          \A k \in 1..Len(op.ret) : op.ret[k].created_at # today

\* an item has just been added on a day on which another item is due
C5_Witness ==
    /\ op.name = "add_word"
    /\ op.ret \in DOMAIN vocab
    /\ \E due \in get_due_words(vocab, today) : due # <<>>

\* C6: a due query returns exactly the items whose next review date is today
\* or earlier, each once, in non-decreasing order of that date, and the
\* empty list when none is due.
C6_DueExactAndOrdered ==
    op.name = "get_due_words" =>
        /\ {op.ret[k] : k \in 1..Len(op.ret)} = {vocab[i] : i \in DueIds(today)}
        /\ Len(op.ret) = Cardinality(DueIds(today))
        /\ \A j, k \in 1..Len(op.ret) :
              j < k => OrdinalOf(op.ret[j].next_review_date)
                          <= OrdinalOf(op.ret[k].next_review_date)
        /\ (DueIds(today) = {}) => (op.ret = <<>>)

\* a query returned two items that are due on different days while a third
\* date lies in the future
C6_Witness ==
    /\ op.name = "get_due_words"
    /\ Len(op.ret) = 2
    /\ op.ret[1].next_review_date # op.ret[2].next_review_date
    /\ OrdinalOf(op.ret[2].next_review_date) = today

\* C7: after a review flow has persisted a rating below 3 for an item, the
\* item has stage 0, is not due on the day of the review and is due on the
\* following day.
C7_ForgottenDueNextDay ==
    (/\ op.name = "update_review"
     /\ op.flow \in Flows
     /\ op.quality < 3
     /\ op.word_id \in DOMAIN vocab) =>
        /\ vocab[op.word_id].review_stage = 0
        /\ \A due \in get_due_words(vocab, today) :
              op.word_id \notin IdsOf(due)
        /\ \A due \in get_due_words(vocab, today + 1) :
              op.word_id \in IdsOf(due)

\* the stage-5 item of the earlier run has just been rated forgotten
C7_Witness ==
    /\ op.name = "update_review"
    /\ op.flow \in Flows
    /\ op.quality < 3
    /\ today >= 145
    /\ op.word_id = 1
    /\ 1 \in DOMAIN vocab
    /\ vocab[1].last_quality = Some(op.quality)

\* C8: update_review(id, quality, next_date, new_stage) sets the stage, the
\* next review date and the last quality of the item with that id to the
\* given values and changes nothing else: its other fields, every other
\* item and the set of items stay as they were.
C8_UpdateFrame ==
    [][op'.name = "update_review" =>
         /\ DOMAIN vocab' = DOMAIN vocab
         /\ \A i \in DOMAIN vocab :
               IF vocab[i].id = op'.word_id
               THEN /\ vocab'[i].review_stage = op'.new_stage
                    /\ OrdinalOf(vocab'[i].next_review_date) = op'.next_date
                    /\ vocab'[i].last_quality = Some(op'.quality)
                    /\ vocab'[i].id = vocab[i].id
                    /\ vocab'[i].word = vocab[i].word
                    /\ vocab'[i].meaning = vocab[i].meaning
                    /\ vocab'[i].context_sentence = vocab[i].context_sentence
                    /\ vocab'[i].created_at = vocab[i].created_at
               ELSE vocab'[i] = vocab[i]
         /\ seq' = seq]_vars

\* an item has just been updated while another item with other scheduling
\* values is stored
C8_Witness ==
    /\ op.name = "update_review"
    /\ op.word_id \in DOMAIN vocab
    /\ vocab[op.word_id].review_stage = op.new_stage
    /\ \E i \in DOMAIN vocab :
          /\ i # op.word_id
          /\ vocab[i].review_stage # op.new_stage
          /\ vocab[i].last_quality # Some(op.quality)

\* C9: statistics reads without writing, and its result matches the store:
\* the total is the number of items, the due count the number of due items,
\* and the distribution maps exactly the stages some item holds to the
\* number of items that hold them, so that the counts are positive and sum
\* to the total.
RECURSIVE SumOver(_, _)
SumOver(f, S) ==
    IF S = {} THEN 0
    ELSE LET x == CHOOSE y \in S : TRUE IN f[x] + SumOver(f, S \ {x})

C9_StatisticsMatchStore ==
    [][op'.name = "get_statistics" =>
         /\ vocab' = vocab /\ seq' = seq /\ today' = today
         /\ op'.ret.total_words = Cardinality(DOMAIN vocab)
         /\ op'.ret.due_today = Cardinality(DueIds(today))
         /\ \A due \in get_due_words(vocab, today) :
               op'.ret.due_today = Len(due)
         /\ DOMAIN op'.ret.stage_distribution =
               {vocab[i].review_stage : i \in DOMAIN vocab}
         /\ \A s \in DOMAIN op'.ret.stage_distribution :
               /\ op'.ret.stage_distribution[s] >= 1
               /\ op'.ret.stage_distribution[s] =
                     Cardinality({i \in DOMAIN vocab : vocab[i].review_stage = s})
         /\ SumOver(op'.ret.stage_distribution,
                    DOMAIN op'.ret.stage_distribution) = op'.ret.total_words]_vars

\* statistics of a store that holds one item at stage 0 and one at stage 2,
\* one of them due
C9_Witness ==
    /\ op.name = "get_statistics"
    /\ op.ret.total_words = 2
    /\ op.ret.due_today = 1
    /\ op.ret.stage_distribution = (0 :> 1) @@ (2 :> 1)

\* C10: add_word called with empty content fails with a ValidationError and
\* leaves the store as it was.
C10_EmptyContentRejected ==
    [][(op'.name = "add_word" /\ op'.word = <<>>) =>
         (op'.error = "ValidationError" /\ vocab' = vocab /\ seq' = seq)]_vars

----------------------------------------------------------------------------
(* Properties of the store's error handling *)

\* C11: update_review on an id that is not in the store (never created, or
\* deleted) fails with NotFoundError and leaves the store unchanged.
C11_MissingIdRejected ==
    [][(op'.name = "update_review" /\ op'.word_id \notin DOMAIN vocab) =>
          (op'.error = "NotFoundError" /\ vocab' = vocab)]_vars


\* C12: a rating outside 0..5 passed to calculate_next_review or to
\* update_review is rejected with a ValidationError, and update_review
\* then stores nothing.
C12_BadQualityRejected ==
    [][(/\ op'.name \in {"calculate_next_review", "update_review"}
        /\ op'.quality \notin 0..5) =>
          (op'.error = "ValidationError" /\ vocab' = vocab)]_vars

\* C13: delete_word removes the item for good: its id is gone from the
\* store, never comes back, and is neither returned by a later due query
\* nor counted by later statistics; deleting an absent id raises no error
\* and changes nothing; every other item keeps all its fields.
C13_DeleteIsFinalAndLocal ==
    [][/\ (op'.name = "delete_word") =>
             /\ op'.error = "none"
             /\ DOMAIN vocab' = DOMAIN vocab \ {op'.word_id}
             /\ \A i \in DOMAIN vocab' : vocab'[i] = vocab[i]
             /\ (op'.word_id \notin DOMAIN vocab) => (vocab' = vocab)
       /\ \A i \in 1..seq : (i \notin DOMAIN vocab) => (i \notin DOMAIN vocab')
       /\ (op'.name = "get_due_words") =>
             (IdsOf(op'.ret) \subseteq DOMAIN vocab')
       /\ (op'.name = "get_statistics") =>
             (op'.ret.total_words = Cardinality(DOMAIN vocab'))]_vars

\* item 1 was deleted while item 2, already reviewed, stays as it was
C13_Witness ==
    /\ op.name = "delete_word"
    /\ op.word_id = 1
    /\ seq = 2
    /\ DOMAIN vocab = {2}
    /\ vocab[2].review_stage = 2
    /\ vocab[2].last_quality = Some(4)

\* C20: when a due query reads an item whose stored stage lies outside
\* 0..5, a ConsistencyError is raised and the item is not returned as a
\* normal item.
C20_BadStageDetectedOnRead ==
    (/\ op.name = "get_due_words"
     /\ \E i \in DOMAIN vocab :
           /\ vocab[i].review_stage \notin 0..5
           /\ TextLE(vocab[i].next_review_date, adapt_date[today])) =>
        (/\ op.error = "ConsistencyError"
         /\ \A k \in 1..Len(op.ret) : op.ret[k].review_stage \in 0..5)

----------------------------------------------------------------------------
(* Properties of the ids *)

\* C14: ids are unique and grow in the order of creation: a new item gets
\* an id greater than every id handed out before, also before a deletion,
\* so no id is assigned twice; an item that stays in the store keeps its
\* id, and items with greater ids were not created earlier.
C14_IdsUniqueIncreasingStable ==
    [][/\ seq' >= seq
       /\ \A i \in DOMAIN vocab' :
             /\ vocab'[i].id = i
             /\ i <= seq'
             /\ \/ i \in DOMAIN vocab /\ vocab'[i].id = vocab[i].id
                \/ i > seq /\ op'.name = "add_word" /\ op'.ret = i
       /\ \A i, j \in DOMAIN vocab' :
             (i < j) => (vocab'[i].created_at <= vocab'[j].created_at)]_vars

\* item 1 was created and deleted; the next item is given id 2, not 1
C14_Witness ==
    /\ op.name = "add_word"
    /\ op.ret = 2
    /\ DOMAIN vocab = {2}
    /\ vocab[2].id = 2
    /\ seq = 2

----------------------------------------------------------------------------
(* Properties of the review session *)

C16_FailureSkipsItemOnly ==
    [][(op'.name = "update_review" /\ op'.error # "none") =>
          LET s == sess["cli"]
          IN  /\ vocab' = vocab
              /\ sess'["cli"].pc \in {"reviewing", "done"}
              /\ (s.current_index < Len(s.due_words)) =>
                    /\ sess'["cli"].pc = "reviewing"
                    /\ sess'["cli"].current_index = s.current_index + 1]_vars

----------------------------------------------------------------------------
(* Properties of the scorer *)

C17_ScoreRangeAndFixedPoints ==
    (op.name = "calculate_score") =>
        LET s1 == _normalize(op.standard)
            s2 == _normalize(op.transcribed)
        IN  /\ op.ret \in 0..1000
            /\ (s1 = <<>> /\ s2 = <<>>) => (op.ret = 1000)
            /\ ((s1 = <<>>) # (s2 = <<>>)) => (op.ret = 0)
            /\ (s1 = s2) => (op.ret = 1000)

\* "A," and " a" are both "a" after normalisation
C17_Witness ==
    /\ op.name = "calculate_score"
    /\ op.standard = <<"A", ",">>
    /\ op.transcribed = <<" ", "a">>
    /\ op.ret = 1000

----------------------------------------------------------------------------
(* Properties of the highlighter *)

\* C18: the word alignment is greedy from left to right: each word of the
\* standard text, in order, is matched to the earliest position of the
\* transcribed text that no earlier word took and whose normalised word
\* equals its own, and to nothing if there is none; "a b c" against
\* "b c d" matches b and c, misses a and leaves d extra.
C18_GreedyAlignment ==
    (op.name = "highlight_diff") =>
        LET s == op.ret.s_words
            t == op.ret.t_words
            f == op.ret.found
            Taken(i) == {f[k] : k \in 1..(i - 1)} \ {0}
            Candidates(i) ==
                {j \in 1..Len(t) :
                    /\ j \notin Taken(i)
                    /\ _normalize_word(t[j]) = _normalize_word(s[i])}
        IN  /\ Len(f) = Len(s)
            /\ \A i \in 1..Len(s) :
                  /\ IF Candidates(i) = {} THEN f[i] = 0
                     ELSE /\ f[i] \in Candidates(i)
                          /\ \A j \in Candidates(i) : f[i] <= j
                  /\ op.ret.standard_text[i].style =
                        (IF f[i] = 0 THEN "bold red" ELSE "bold green")
            /\ op.ret.matched_indices = {f[i] : i \in 1..Len(s)} \ {0}
            /\ \A j \in 1..Len(t) :
                  op.ret.transcribed_text[j].style =
                     (IF j \in op.ret.matched_indices THEN "green" ELSE "dim")
            /\ (s = <<<<"a">>, <<"b">>, <<"c">>>>
                  /\ t = <<<<"b">>, <<"c">>, <<"d">>>>) =>
                  (f = <<0, 1, 2>> /\ op.ret.matched_indices = {1, 2})

\* the example: a is missed, b and c are matched, d is extra
C18_Witness ==
    /\ op.name = "highlight_diff"
    /\ op.standard = <<"a", " ", "b", " ", "c">>
    /\ op.transcribed = <<"b", " ", "c", " ", "d">>
    /\ op.ret.found = <<0, 1, 2>>
    /\ op.ret.standard_text[1].style = "bold red"
    /\ op.ret.transcribed_text[3].style = "dim"

----------------------------------------------------------------------------
(* Properties of the program over several sessions *)

\* C21: when a review session rates an item of stage 5 as remembered, the
\* item stays at stage 5 and is scheduled after more than the table's last
\* interval of 90 days.
C21_IntervalGrowsAtStageFive ==
    [][(/\ op'.name = "update_review"
        /\ op'.flow = "cli"
        /\ op'.quality >= 3
        /\ sess["cli"].due_words[sess["cli"].current_index].review_stage = 5) =>
          (/\ op'.new_stage = 5
           /\ op'.next_date - today > 90)]_vars

----------------------------------------------------------------------------
(* Properties of concurrent and interrupted updates *)

\* the three scheduling values of a row
Triple(row) == <<row.review_stage, row.next_review_date, row.last_quality>>

\* C22: every step, also between the execute and the commit of updates
\* issued by two processes and after one of them died, leaves the three
\* scheduling values of every item as they were or replaces all three by
\* the values of one update; a new item has its creation values. So every
\* reachable state holds, for each item, three values written together.
C22_TripleWrittenTogether ==
    [][\A i \in DOMAIN vocab' :
          IF i \in DOMAIN vocab
          THEN \/ Triple(vocab'[i]) = Triple(vocab[i])
               \/ \E f \in DOMAIN sess :
                     /\ sess[f].pc = "executed"
                     /\ sess[f].pending[1].word_id = i
                     /\ Triple(vocab'[i]) =
                           <<sess[f].pending[1].new_stage,
                             adapt_date[sess[f].pending[1].next_date],
                             Some(sess[f].pending[1].quality)>>
          ELSE Triple(vocab'[i]) = <<0, adapt_date[today + 1], None>>]_vars

\* gui's update of item 1 is committed and cli's update of the same item
\* is executed but not committed: the row holds gui's three values
C22_Witness ==
    /\ op.name = "execute"
    /\ op.flow = "cli"
    /\ sess["cli"].pending[1].word_id = 1
    /\ sess["cli"].pending[1].new_stage = 2
    /\ 1 \in DOMAIN vocab
    /\ Triple(vocab[1]) = <<5, adapt_date[0], Some(0)>>

\* C23: when two review flows hold the same due item, the updates are
\* serialized per item: every update a flow writes is computed from the
\* stage the store holds at that moment, never from a stage the flow
\* fetched before another flow's update.
C23_UpdatesSerializedPerItem ==
    [][(/\ op'.name = "update_review"
        /\ op'.flow \in Procs
        /\ op'.word_id \in DOMAIN vocab) =>
          LET s == sess[op'.flow]
          IN  s.due_words[s.current_index].review_stage =
                 vocab[op'.word_id].review_stage]_vars

----------------------------------------------------------------------------
(* Further properties of the highlighter and the scorer *)

\* the positions of the standard text that are matched, and those of the
\* transcribed text
MatchedRef(ret) == {i \in 1..Len(ret.s_words) : ret.found[i] # 0}

\* C24: the alignment is one-to-one and partitions both texts: no two
\* standard words are matched to the same transcribed position, every
\* standard word is styled either matched (green) or missed (red)
\* according to whether it has a position, and the transcribed words
\* styled extra (dim) are exactly the positions no standard word took.
C24_AlignmentPartitions ==
    (op.name = "highlight_diff") =>
        LET r == op.ret
            Red == {i \in 1..Len(r.s_words) :
                       r.standard_text[i].style = "bold red"}
            Green == {i \in 1..Len(r.s_words) :
                       r.standard_text[i].style = "bold green"}
            Dim == {j \in 1..Len(r.t_words) :
                       r.transcribed_text[j].style = "dim"}
            Taken == {r.found[i] : i \in MatchedRef(r)}
        IN  /\ \A i, k \in MatchedRef(r) : (r.found[i] = r.found[k]) => (i = k)
            /\ Taken \subseteq 1..Len(r.t_words)
            /\ Green = MatchedRef(r)
            /\ Red = (1..Len(r.s_words)) \ MatchedRef(r)
            /\ Dim = (1..Len(r.t_words)) \ Taken
            /\ Cardinality(Taken) = Cardinality(MatchedRef(r))

\* "a a b" against "a c a": both a are matched to different positions, b is
\* missed and c is extra
C24_Witness ==
    /\ op.name = "highlight_diff"
    /\ op.ret.s_words = << <<"a">>, <<"a">>, <<"b">> >>
    /\ op.ret.t_words = << <<"a">>, <<"c">>, <<"a">> >>
    /\ op.ret.found = <<1, 3, 0>>
    /\ op.ret.transcribed_text[2].style = "dim"

\* how often the normalised word w occurs among the words of a list
Occurrences(w, words) ==
    Cardinality({k \in 1..Len(words) : _normalize_word(words[k]) = w})

\* C30: the number of pairs the greedy alignment matches is the sum, over
\* the distinct normalised words, of the smaller of the word's occurrences
\* in the standard and in the transcribed text, which is the most any
\* one-to-one matching of equal normalised words can match.
C30_GreedyMatchesMaximum ==
    (op.name = "highlight_diff") =>
        LET r == op.ret
            Distinct == {_normalize_word(r.s_words[i]) : i \in 1..Len(r.s_words)}
            Smaller == [w \in Distinct |->
                          Min(Occurrences(w, r.s_words),
                              Occurrences(w, r.t_words))]
        IN  /\ Cardinality(r.matched_indices) = SumOver(Smaller, Distinct)
            /\ Cardinality(MatchedRef(r)) = SumOver(Smaller, Distinct)

\* "a b a" against "b a": a occurs twice and once, b once and once; two
\* pairs are matched although the words come in another order
C30_Witness ==
    /\ op.name = "highlight_diff"
    /\ op.ret.s_words = << <<"a">>, <<"b">>, <<"a">> >>
    /\ op.ret.t_words = << <<"b">>, <<"a">> >>
    /\ Cardinality(op.ret.matched_indices) = 2
    /\ op.ret.found = <<2, 1, 0>>

----------------------------------------------------------------------------
(* Properties of the lesson segments *)

\* C25: lesson segments are scheduled like words: after the same adds,
\* review updates and due queries on the same days, the lesson with an id
\* has the stage, the next review date and the last quality of the word
\* with that id, and a due query returns the same ids for both.
C25_LessonsScheduledLikeWords ==
    /\ DOMAIN youtube_lessons = DOMAIN vocab
    /\ \A i \in DOMAIN vocab : Triple(youtube_lessons[i]) = Triple(vocab[i])
    /\ (op.name = "query_both") =>
          /\ IdsOf(op.lessons) = IdsOf(op.words)
          /\ Len(op.lessons) = Len(op.words)
          /\ \A k \in 1..Len(op.words) :
                op.lessons[k].next_review_date = op.words[k].next_review_date

\* one pair was updated and is not due, the other was not and is due
C25_Witness ==
    /\ op.name = "query_both"
    /\ DOMAIN youtube_lessons = {1, 2}
    /\ IdsOf(op.lessons) = {2}
    /\ youtube_lessons[1].review_stage = 2
    /\ youtube_lessons[1].last_quality = Some(4)
    /\ youtube_lessons[2].last_quality = None

----------------------------------------------------------------------------
(* Further properties of the review session *)

\* the item is not due on the given day
NotDue(row, now) == TextLT(adapt_date[now], row.next_review_date)

\* C26: a review in a session stores a next review date later than today,
\* whatever the rating; an item that is not due stays not due until the
\* day changes; and a session presents only items that are due. So a
\* second session on the same day presents none of the items the first
\* one persisted.
C26_ReviewedNotDueSameDay ==
    [][/\ (op'.name = "update_review" /\ op'.flow = "cli") =>
             /\ op'.next_date > today
             /\ (op'.word_id \in DOMAIN vocab) =>
                   NotDue(vocab'[op'.word_id], today)
       /\ (today' = today) =>
             \A i \in DOMAIN vocab \cap DOMAIN vocab' :
                NotDue(vocab[i], today) => NotDue(vocab'[i], today)
       /\ (op'.name = "run") =>
             \A k \in 1..Len(op'.ret) : ~NotDue(op'.ret[k], today)]_vars

\* the item added on day 0 was due and forgotten on day 1; a second session
\* on day 1 finds nothing due
C26_Witness ==
    /\ op.name = "run"
    /\ op.ret = <<>>
    /\ today = 1
    /\ \E i \in DOMAIN vocab :
          /\ vocab[i].created_at = 0
          /\ vocab[i].last_quality = Some(0)
          /\ vocab[i].next_review_date = adapt_date[2]

\* C27: a review session changes nothing but the stage, the next review
\* date and the last quality of words that were due when it started: it
\* takes the due words as its list without writing, every update it issues
\* is for a word of that list, leaves every other word and every lesson
\* segment as it was, and creates and deletes nothing.
C27_SessionFrame ==
    [][/\ (op'.name = "run") =>
             /\ IdsOf(op'.ret) = DueIds(today)
             /\ sess'["cli"].due_words = op'.ret
             /\ vocab' = vocab /\ seq' = seq
             /\ youtube_lessons' = youtube_lessons
             /\ youtube_seq' = youtube_seq
       /\ (op'.name = "update_review" /\ op'.flow = "cli") =>
             /\ op'.word_id \in IdsOf(sess["cli"].due_words)
             /\ DOMAIN vocab' = DOMAIN vocab /\ seq' = seq
             /\ youtube_lessons' = youtube_lessons
             /\ youtube_seq' = youtube_seq
             /\ \A i \in DOMAIN vocab :
                   /\ (i # op'.word_id) => (vocab'[i] = vocab[i])
                   /\ vocab'[i] =
                         [vocab[i] EXCEPT
                            !.review_stage = vocab'[i].review_stage,
                            !.next_review_date = vocab'[i].next_review_date,
                            !.last_quality = vocab'[i].last_quality]]_vars

\* word 1 was due and is rated; word 2, added today, and the due lesson
\* segment are as they were created
C27_Witness ==
    /\ op.name = "update_review"
    /\ op.flow = "cli"
    /\ op.word_id = 1
    /\ DOMAIN vocab = {1, 2}
    /\ vocab[1].last_quality = Some(5)
    /\ vocab[2].review_stage = 0
    /\ vocab[2].last_quality = None
    /\ 1 \in DOMAIN youtube_lessons
    /\ youtube_lessons[1].last_quality = None
    /\ ~NotDue(youtube_lessons[1], today)

\* the positions of a styled text that carry one of the given styles
Styled(styled_text, styles) ==
    {k \in 1..Len(styled_text) : styled_text[k].style \in styles}

\* C28: whenever the score of a pair is 100, the highlight of the same pair
\* flags no word of the standard text as missed and no word of the
\* transcribed text as extra
C28_PerfectScoreShowsNoDifference ==
    (op.name = "_score_and_display" /\ op.ret.score = 1000)
        => /\ Styled(op.ret.diff.standard_text, {"bold red"}) = {}
           /\ Styled(op.ret.diff.transcribed_text, {"dim"}) = {}

\* C29: get_word_accuracy never reports more correct words than the standard
\* text has words, and its accuracy lies between 0 and 100
C29_AccuracyBounded ==
    op.name = "get_word_accuracy"
        => /\ op.ret.correct <= op.ret.total
           /\ op.ret.accuracy \in 0..1000

============================================================================
